---- MODULE Spec2Model ----
(***************************************************************************)
(* Consensus and decision core of the multi-agent medical assistant:       *)
(*   src/consensus/consensus_matrix.py  (ConsensusMatrix)                  *)
(*   src/consensus/decision_engine.py   (DecisionEngine)                   *)
(*   src/agents/base_agent.py           (AgentRole, AgentOpinion)          *)
(*                                                                         *)
(* Numbers.  A Python float is modelled as a fixed-point integer counting  *)
(* units of 1/Scale; a product or quotient is rounded down to that unit   *)
(* and np.sqrt is the floor square root at that resolution.  Counts and   *)
(* list lengths are plain integers.                                        *)
(*                                                                         *)
(* Text.  A recommendation is compared by equality only and is a string.   *)
(* A concern is searched for keywords, so it is a sequence of characters   *)
(* (one string per Chinese character, written in pinyin).                  *)
(***************************************************************************)
EXTENDS Integers, Sequences, FiniteSets, TLC

VARIABLES
    hash_order,        \* iteration order of a set of str in this process (PYTHONHASHSEED)
    called,            \* the entry point of the last call: "none" before the first
    case_id,           \* case.case_id of the call
    opinions,          \* the opinions argument of the call
    outcome,           \* of that call: "none" | "pending" | "returned" | "raised"
    error,             \* the exception of a call that raised
    consensus_result,  \* the ConsensusResult of the last call that computed one
    decision_report,   \* the report make_decision returned
    decision_history,  \* DecisionEngine.decision_history
    consensus_matrix,  \* DecisionEngine.consensus_matrix: the two weight tables
    callers            \* the threads inside make_decision, each with its position

vars == <<hash_order, called, case_id, opinions, outcome, error,
          consensus_result, decision_report, decision_history,
          consensus_matrix, callers>>

-----------------------------------------------------------------------------
(* Floats as fixed point *)

Scale == 10000

\* the float literal a/b
Frac(a, b) == (a * Scale) \div b

Mul(a, b) == (a * b) \div Scale

Div(a, b) == (a * Scale) \div b

Min(a, b) == IF a <= b THEN a ELSE b

Max(a, b) == IF a >= b THEN a ELSE b

RECURSIVE SqrtSearch(_, _, _)
\* the largest r in lo..hi-1 with r*r <= x, given lo*lo <= x < hi*hi
SqrtSearch(x, lo, hi) ==
    IF hi - lo <= 1 THEN lo
    ELSE LET mid == (lo + hi) \div 2
         IN  IF mid * mid <= x THEN SqrtSearch(x, mid, hi)
                               ELSE SqrtSearch(x, lo, mid)

\* floor of the square root of the integer x
ISqrt(x) == SqrtSearch(x, 0, 46341)

\* np.sqrt of a fixed-point number
Sqrt(v) == ISqrt(v * Scale)

RECURSIVE Sum(_)
Sum(s) == IF s = <<>> THEN 0 ELSE Head(s) + Sum(Tail(s))

\* np.mean
Mean(values) == Sum(values) \div Len(values)

\* mutation of Average: the weights are ignored
Average_Unweighted(values, weights) == Mean(values)

\* np.average(values, weights=weights)
Average(values, weights) ==
    Sum([i \in 1..Len(values) |-> values[i] * weights[i]]) \div Sum(weights)

\* np.std: the population standard deviation
Std(values) ==
    LET m == Mean(values)
    IN  Sqrt(Mean([i \in 1..Len(values) |-> Mul(values[i] - m, values[i] - m)]))

-----------------------------------------------------------------------------
(* Sequences *)

RECURSIVE Flatten(_)
\* list.extend over a list of lists
Flatten(ss) == IF ss = <<>> THEN <<>> ELSE Head(ss) \o Flatten(Tail(ss))

Range(s) == {s[i] : i \in 1..Len(s)}

\* s[:n]
Take(s, n) == SubSeq(s, 1, Min(n, Len(s)))

\* the number of positions of s holding x
Count(s, x) == Cardinality({i \in 1..Len(s) : s[i] = x})

RECURSIVE SelectSeqIn(_, _)
\* the elements of s that are in the set S, in the order of s
SelectSeqIn(s, S) ==
    IF s = <<>> THEN <<>>
    ELSE IF Head(s) \in S THEN <<Head(s)>> \o SelectSeqIn(Tail(s), S)
         ELSE SelectSeqIn(Tail(s), S)

RECURSIVE Dedup(_)
\* the distinct elements of s in order of first occurrence (dict key order)
Dedup(s) ==
    IF s = <<>> THEN <<>>
    ELSE LET rest == Dedup(SubSeq(s, 1, Len(s) - 1))
             x == s[Len(s)]
         IN  IF x \in Range(rest) THEN rest ELSE Append(rest, x)

SeqsUpTo(S, n) == UNION {[1..k -> S] : k \in 0..n}

-----------------------------------------------------------------------------
(* agents/base_agent.py: AgentRole, AgentOpinion *)

ONCOLOGIST == "oncologist"
RADIOLOGIST == "radiologist"
NURSE == "nurse"
PSYCHOLOGIST == "psychologist"
PATIENT_ADVOCATE == "patient_advocate"

AgentRole == {ONCOLOGIST, RADIOLOGIST, NURSE, PSYCHOLOGIST, PATIENT_ADVOCATE}

\* Values a caller can put in AgentOpinion.role although they are no member of
\* AgentRole (the dataclass does not check the annotation): a plain str, and a
\* member of some other Enum.
PlainRole == "pharmacist"
ForeignRole == "ExtendedRole.PHARMACIST"

\* role.value exists: Enum members have the attribute, a str has not
HasValue(role) == role # PlainRole

\* An AgentOpinion; reasoning and timestamp are read by nothing in the core.
AgentOpinion(id, role, text, conf, recs, concerns, prio) ==
    [agent_id |-> id, role |-> role, opinion |-> text, confidence |-> conf,
     recommendations |-> recs, concerns |-> concerns, priority_score |-> prio]

-----------------------------------------------------------------------------
(* consensus/consensus_matrix.py: ConsensusMatrix *)

\* ConsensusMatrix.__init__: self.role_weights
RoleWeightTable ==
    [role \in AgentRole |->
        CASE role = ONCOLOGIST -> Frac(35, 100)
          [] role = RADIOLOGIST -> Frac(25, 100)
          [] role = NURSE -> Frac(15, 100)
          [] role = PSYCHOLOGIST -> Frac(15, 100)
          [] role = PATIENT_ADVOCATE -> Frac(10, 100)]

\* ConsensusMatrix.__init__: self.decision_dimensions
DecisionDimensions ==
    [medical_accuracy |-> Frac(40, 100), patient_safety |-> Frac(30, 100),
     quality_of_life |-> Frac(20, 100), cost_effectiveness |-> Frac(10, 100)]

\* ConsensusMatrix(): the instance a DecisionEngine holds
NewConsensusMatrix ==
    [role_weights |-> RoleWeightTable, decision_dimensions |-> DecisionDimensions]

\* self.role_weights.get(role, 0.2)
RoleWeight(role) ==
    IF role \in DOMAIN consensus_matrix.role_weights
    THEN consensus_matrix.role_weights[role]
    ELSE Frac(2, 10)

confidences(ops) == [i \in 1..Len(ops) |-> ops[i].confidence]

priorities(ops) == [i \in 1..Len(ops) |-> ops[i].priority_score]

role_weights(ops) == [i \in 1..Len(ops) |-> RoleWeight(ops[i].role)]

weighted_confidence(ops) == Average(confidences(ops), role_weights(ops))

weighted_priority(ops) == Average(priorities(ops), role_weights(ops))

\* mutation of all_recommendations: a recommendation that an opinion lists
\* twice is taken once from that opinion
all_recommendations_OncePerOpinion(ops) ==
    Flatten([i \in 1..Len(ops) |-> Dedup(ops[i].recommendations)])

\* _calculate_consensus_score: the flattened recommendation list
all_recommendations(ops) ==
    Flatten([i \in 1..Len(ops) |-> ops[i].recommendations])

total_recommendations(ops) == Len(all_recommendations(ops))

\* mutation of overlapping_count: a repeated recommendation counts once,
\* whatever the number of its occurrences
overlapping_count_Distinct(ops) ==
    LET all == all_recommendations(ops)
    IN  Cardinality({r \in Range(all) : Count(all, r) > 1})

\* sum(count for count in recommendation_counts.values() if count > 1)
overlapping_count(ops) ==
    LET all == all_recommendations(ops)
    IN  Cardinality({i \in 1..Len(all) : Count(all, all[i]) > 1})

\* mutation of confidence_consistency: the dispersion itself, not its complement
confidence_consistency_Dispersion(ops) ==
    Div(Min(Std(confidences(ops)), Frac(5, 10)), Frac(5, 10))

\* 1 - min(confidence_std, 0.5) / 0.5
confidence_consistency(ops) ==
    Scale - Div(Min(Std(confidences(ops)), Frac(5, 10)), Frac(5, 10))

\* mutation of final_consensus: the consistency term is subtracted
final_consensus_Subtracted(ops) ==
    Mul(Frac(7, 10), Div(overlapping_count(ops), total_recommendations(ops)))
        - Mul(Frac(3, 10), confidence_consistency(ops))

\* the score before the clamp to 1.0
final_consensus(ops) ==
    Mul(Frac(7, 10), Div(overlapping_count(ops), total_recommendations(ops)))
        + Mul(Frac(3, 10), confidence_consistency(ops))

\* mutation of calculate_consensus_score: the short cut is taken for the
\* empty list only
calculate_consensus_score_OffByOne(ops) ==
    IF Len(ops) < 1 THEN Scale
    ELSE IF total_recommendations(ops) = 0 THEN 0
    ELSE Min(final_consensus(ops), Scale)

\* mutation of calculate_consensus_score: without recommendations the overlap
\* is 0 and the blend is still computed
calculate_consensus_score_BlendOnEmpty(ops) ==
    IF Len(ops) <= 1 THEN Scale
    ELSE IF total_recommendations(ops) = 0
         THEN Min(Mul(Frac(3, 10), confidence_consistency(ops)), Scale)
    ELSE Min(final_consensus(ops), Scale)

calculate_consensus_score(ops) ==
    IF Len(ops) <= 1 THEN Scale
    ELSE IF total_recommendations(ops) = 0 THEN 0
    ELSE Min(final_consensus(ops), Scale)

\* _calculate_confidence_interval
margin_error(confs, weights) ==
    LET weighted_mean == Average(confs, weights)
        weighted_std ==
            Sqrt(Average([i \in 1..Len(confs) |->
                              Mul(confs[i] - weighted_mean, confs[i] - weighted_mean)],
                         weights))
    IN  Div(Mul(Frac(196, 100), weighted_std), Sqrt(Len(confs) * Scale))

lower_bound(confs, weights) ==
    Max(0, Average(confs, weights) - margin_error(confs, weights))

\* mutation of upper_bound: no clamp to 1
upper_bound_Unclamped(confs, weights) ==
    Average(confs, weights) + margin_error(confs, weights)

upper_bound(confs, weights) ==
    Min(Scale, Average(confs, weights) + margin_error(confs, weights))

calculate_confidence_interval(confs, weights) ==
    <<lower_bound(confs, weights), upper_bound(confs, weights)>>

\* _generate_final_recommendation: weighted_recommendations[rec], the sum of
\* role_weights[i] * confidence over the occurrences of rec
RecommendationWeight(ops, rec) ==
    Sum([i \in 1..Len(ops) |->
            Count(ops[i].recommendations, rec)
                * Mul(RoleWeight(ops[i].role), ops[i].confidence)])

RECURSIVE InsertDesc(_, _, _)
\* x put into the list sorted by descending weight, behind the items that
\* weigh as much (sorted(..., reverse=True) keeps the order of equal keys)
InsertDesc(sorted, x, ops) ==
    IF sorted = <<>> THEN <<x>>
    ELSE IF RecommendationWeight(ops, Head(sorted)) >= RecommendationWeight(ops, x)
         THEN <<Head(sorted)>> \o InsertDesc(Tail(sorted), x, ops)
         ELSE <<x>> \o sorted

RECURSIVE SortDesc(_, _)
SortDesc(items, ops) ==
    IF items = <<>> THEN <<>>
    ELSE InsertDesc(SortDesc(SubSeq(items, 1, Len(items) - 1), ops),
                    items[Len(items)], ops)

\* the keys of weighted_recommendations, sorted by weight
sorted_recommendations(ops) == SortDesc(Dedup(all_recommendations(ops)), ops)

\* np.mean(list(weighted_recommendations.values())); only read when there is a key
avg_weight(ops) ==
    LET keys == Dedup(all_recommendations(ops))
    IN  Mean([k \in 1..Len(keys) |-> RecommendationWeight(ops, keys[k])])

\* The float that np.mean returns for three or more weights need not be the
\* exact mean: the sum is rounded at every addition (0.35 + 0.35 + 0.35 is
\* 1.0499999999999998, a third of which is below 0.35).  The error is far
\* below the resolution of the fixed-point numbers and only decides a
\* comparison with a weight that equals the exact mean.  The rounding is
\* 0 when the float is the exact mean or above it, and -1 when it is below.
\* The mean of one weight, and of two, is exact when it equals a weight.
MeanRoundings(ops) ==
    IF Len(Dedup(all_recommendations(ops))) >= 3 THEN {0, -1} ELSE {0}

\* weight > avg_weight, as the floats compare
AboveMean(weight, ops, rounding) ==
    LET keys == Dedup(all_recommendations(ops))
        total == Sum([k \in 1..Len(keys) |-> RecommendationWeight(ops, keys[k])])
    IN  2 * Len(keys) * weight > 2 * total + (IF Len(keys) >= 3 THEN rounding ELSE 0)

RECURSIVE FilterByWeight(_, _, _, _)
\* [rec for rec in sorted if (weight > avg_weight) = above]
FilterByWeight(sorted, ops, above, rounding) ==
    IF sorted = <<>> THEN <<>>
    ELSE LET rest == FilterByWeight(Tail(sorted), ops, above, rounding)
         IN  IF AboveMean(RecommendationWeight(ops, Head(sorted)), ops, rounding) = above
             THEN <<Head(sorted)>> \o rest
             ELSE rest

high_priority(ops, rounding) ==
    FilterByWeight(sorted_recommendations(ops), ops, TRUE, rounding)

other_recommendations(ops, rounding) ==
    FilterByWeight(sorted_recommendations(ops), ops, FALSE, rounding)

all_concerns(ops) == Flatten([i \in 1..Len(ops) |-> ops[i].concerns])

\* list(a_set): the elements in the iteration order of this process
SetToList(S, order) == SelectSeqIn(order, S)

\* The text is the header followed by the numbered sections; a section is
\* printed iff its list is not empty, so the three lists determine the text.
generate_final_recommendation(ops, order, rounding) ==
    [core |-> Take(high_priority(ops, rounding), 5),
     supplementary |-> Take(other_recommendations(ops, rounding), 3),
     concerns |-> Take(SetToList(Range(all_concerns(ops)), order), 3)]

\* f"{x:.2f}": x rounded to the hundredth
Format2(x) == (x + Scale \div 200) \div (Scale \div 100)

\* the concerns of the opinions whose agent_id differs from that of ops[i]
other_concerns(ops, i) ==
    Flatten([j \in 1..Len(ops) |->
                IF ops[j].agent_id # ops[i].agent_id THEN ops[j].concerns ELSE <<>>])

unique_concerns(ops, i) == Range(ops[i].concerns) \ Range(other_concerns(ops, i))

\* mutation of DissentOf: a confidence of exactly 0.5 counts as low
DissentOf_AtMostHalf(ops, i, order) ==
    (IF ops[i].confidence <= Frac(5, 10)
     THEN <<[role |-> ops[i].role, kind |-> "low_confidence",
             confidence |-> Format2(ops[i].confidence),
             evidence |-> Take(ops[i].opinion, 100), concerns |-> <<>>]>>
     ELSE <<>>)
    \o
    (IF unique_concerns(ops, i) # {}
     THEN <<[role |-> ops[i].role, kind |-> "unique_concerns",
             confidence |-> 0, evidence |-> <<>>,
             concerns |-> SetToList(unique_concerns(ops, i), order)]>>
     ELSE <<>>)

\* the entries one opinion adds to dissenting
DissentOf(ops, i, order) ==
    (IF ops[i].confidence < Frac(5, 10)
     THEN <<[role |-> ops[i].role, kind |-> "low_confidence",
             confidence |-> Format2(ops[i].confidence),
             evidence |-> Take(ops[i].opinion, 100), concerns |-> <<>>]>>
     ELSE <<>>)
    \o
    (IF unique_concerns(ops, i) # {}
     THEN <<[role |-> ops[i].role, kind |-> "unique_concerns",
             confidence |-> 0, evidence |-> <<>>,
             concerns |-> SetToList(unique_concerns(ops, i), order)]>>
     ELSE <<>>)

\* mutation of identify_dissenting_opinions: the comparison is inverted
identify_dissenting_opinions_Inverted(ops, consensus_score, order) ==
    IF consensus_score < Frac(8, 10) THEN <<>>
    ELSE Flatten([i \in 1..Len(ops) |-> DissentOf(ops, i, order)])

identify_dissenting_opinions(ops, consensus_score, order) ==
    IF consensus_score > Frac(8, 10) THEN <<>>
    ELSE Flatten([i \in 1..Len(ops) |-> DissentOf(ops, i, order)])

\* _assess_risks: the keyword lists, one string per character
risk_keywords ==
    {<<"zhuan", "yi_move">>, <<"fu_again", "fa">>,
     <<"fu_side", "zuo", "yong">>, <<"bing", "fa", "zheng">>}

psych_risk_keywords ==
    {<<"yi_press", "yu">>, <<"jiao", "lv">>, <<"zi", "sha">>, <<"chuang", "shang">>}

economic_keywords ==
    {<<"fei", "yong">>, <<"jing", "ji">>, <<"fu_bear", "dan">>}

quality_keywords ==
    {<<"sheng", "huo", "zhi", "liang">>, <<"gong", "neng">>, <<"zi", "li">>}

\* keyword in concern: substring search
Contains(concern, keyword) ==
    \E i \in 1..(Len(concern) - Len(keyword) + 1) :
        SubSeq(concern, i, i + Len(keyword) - 1) = keyword

\* mutation of KeywordRisk: every keyword found in a concern is counted
KeywordRisk_PerKeyword(concerns, keywords) ==
    LET matches == Sum([i \in 1..Len(concerns) |->
                           Cardinality({k \in keywords : Contains(concerns[i], k)})])
    IN  Min(IF concerns # <<>> THEN Div(matches, Len(concerns)) ELSE 0, Scale)

\* mutation of KeywordRisk: an opinion without concerns counts as full risk
KeywordRisk_DefaultOne(concerns, keywords) ==
    LET matches == Cardinality({i \in 1..Len(concerns) :
                                   \E k \in keywords : Contains(concerns[i], k)})
    IN  Min(IF concerns # <<>> THEN Div(matches, Len(concerns)) ELSE Scale, Scale)

\* min(matches / len(concerns) if concerns else 0, 1.0)
KeywordRisk(concerns, keywords) ==
    LET matches == Cardinality({i \in 1..Len(concerns) :
                                   \E k \in keywords : Contains(concerns[i], k)})
    IN  Min(IF concerns # <<>> THEN Div(matches, Len(concerns)) ELSE 0, Scale)

RiskKeys == {"medical_risk", "psychological_risk", "economic_risk", "quality_of_life_risk"}

\* mutation of AssessOpinion: the radiologist's concerns count for the
\* medical risk as the oncologist's do
AssessOpinion_RadiologistCounts(risks, opinion) ==
    IF opinion.role \in {ONCOLOGIST, RADIOLOGIST}
    THEN [risks EXCEPT !["medical_risk"] = KeywordRisk(opinion.concerns, risk_keywords)]
    ELSE IF opinion.role = PSYCHOLOGIST
    THEN [risks EXCEPT !["psychological_risk"] =
                           KeywordRisk(opinion.concerns, psych_risk_keywords)]
    ELSE IF opinion.role = PATIENT_ADVOCATE
    THEN [risks EXCEPT !["economic_risk"] =
                           KeywordRisk(opinion.concerns, economic_keywords),
                       !["quality_of_life_risk"] =
                           KeywordRisk(opinion.concerns, quality_keywords)]
    ELSE risks

\* mutation of AssessOpinion: a later opinion of a role can only raise the
\* value an earlier one has set
AssessOpinion_KeepsHighest(risks, opinion) ==
    IF opinion.role = ONCOLOGIST
    THEN [risks EXCEPT !["medical_risk"] =
                           Max(@, KeywordRisk(opinion.concerns, risk_keywords))]
    ELSE IF opinion.role = PSYCHOLOGIST
    THEN [risks EXCEPT !["psychological_risk"] =
                           Max(@, KeywordRisk(opinion.concerns, psych_risk_keywords))]
    ELSE IF opinion.role = PATIENT_ADVOCATE
    THEN [risks EXCEPT !["economic_risk"] =
                           Max(@, KeywordRisk(opinion.concerns, economic_keywords)),
                       !["quality_of_life_risk"] =
                           Max(@, KeywordRisk(opinion.concerns, quality_keywords))]
    ELSE risks

\* the body of the loop over the opinions
AssessOpinion(risks, opinion) ==
    IF opinion.role = ONCOLOGIST
    THEN [risks EXCEPT !["medical_risk"] = KeywordRisk(opinion.concerns, risk_keywords)]
    ELSE IF opinion.role = PSYCHOLOGIST
    THEN [risks EXCEPT !["psychological_risk"] =
                           KeywordRisk(opinion.concerns, psych_risk_keywords)]
    ELSE IF opinion.role = PATIENT_ADVOCATE
    THEN [risks EXCEPT !["economic_risk"] =
                           KeywordRisk(opinion.concerns, economic_keywords),
                       !["quality_of_life_risk"] =
                           KeywordRisk(opinion.concerns, quality_keywords)]
    ELSE risks

RECURSIVE AssessLoop(_, _)
AssessLoop(risks, ops) ==
    IF ops = <<>> THEN risks
    ELSE AssessLoop(AssessOpinion(risks, Head(ops)), Tail(ops))

assess_risks(ops) == AssessLoop([k \in RiskKeys |-> 0], ops)

\* calculate_consensus, for a non-empty list
ConsensusResult(ops, order, rounding) ==
    [final_recommendation |-> generate_final_recommendation(ops, order, rounding),
     consensus_score |-> calculate_consensus_score(ops),
     weighted_priority |-> weighted_priority(ops),
     dissenting_opinions |->
         identify_dissenting_opinions(ops, calculate_consensus_score(ops), order),
     confidence_interval |->
         calculate_confidence_interval(confidences(ops), role_weights(ops)),
     risk_assessment |-> assess_risks(ops)]

\* if not opinions: raise ValueError(...)
Raises(ops) == ops = <<>>

\* _identify_dissenting_opinions formats an entry for ops[i], reading
\* opinion.role.value
FormatsDissent(ops, i) ==
    \/ ops[i].confidence < Frac(5, 10)
    \/ unique_concerns(ops, i) # {}

\* opinion.role.value raises AttributeError for a role without the attribute
AttributeErrorIn(ops) ==
    /\ ~(calculate_consensus_score(ops) > Frac(8, 10))
    /\ \E i \in 1..Len(ops) : FormatsDissent(ops, i) /\ ~HasValue(ops[i].role)

\* mutation of ErrorOf: the mean of the recommendation weights is taken by a
\* function that rejects an empty list
ErrorOf_EmptyMean(ops) ==
    IF Raises(ops) THEN "ValueError"
    ELSE IF all_recommendations(ops) = <<>> THEN "StatisticsError"
    ELSE IF AttributeErrorIn(ops) THEN "AttributeError"
    ELSE "none"

\* the exception calculate_consensus(ops) ends with, "none" if it returns
ErrorOf(ops) ==
    IF Raises(ops) THEN "ValueError"
    ELSE IF AttributeErrorIn(ops) THEN "AttributeError"
    ELSE "none"

-----------------------------------------------------------------------------
(* consensus/decision_engine.py: DecisionEngine *)

\* f"{x:.1f}"
Format1(x) == (x + Scale \div 20) \div (Scale \div 10)

\* mutation of risk_desc: the medium band ends at 0.5
risk_desc_Halves(risk_level) ==
    IF risk_level < Frac(3, 10) THEN "low"
    ELSE IF risk_level < Frac(5, 10) THEN "medium" ELSE "high"

risk_desc(risk_level) ==
    IF risk_level < Frac(3, 10) THEN "low"
    ELSE IF risk_level < Frac(7, 10) THEN "medium" ELSE "high"

\* the order of the keys of the risks dict
RiskOrder == <<"medical_risk", "psychological_risk", "economic_risk", "quality_of_life_risk">>

\* the fields the summary template prints
generate_decision_summary(cr) ==
    [consensus_score |-> Format2(cr.consensus_score),
     weighted_priority |-> Format1(cr.weighted_priority),
     confidence_interval |-> <<Format2(cr.confidence_interval[1]),
                               Format2(cr.confidence_interval[2])>>,
     final_recommendation |-> cr.final_recommendation,
     risks |-> [k \in 1..Len(RiskOrder) |->
                   [risk_type |-> RiskOrder[k],
                    risk_desc |-> risk_desc(cr.risk_assessment[RiskOrder[k]]),
                    risk_level |-> Format2(cr.risk_assessment[RiskOrder[k]])]],
     dissent_heading |-> cr.dissenting_opinions # <<>>,
     dissent |-> cr.dissenting_opinions]

\* mutation of RuleSteps: the risk rules run before the consensus rule
RuleSteps_RisksFirst(cr) ==
    (IF cr.risk_assessment["medical_risk"] > Frac(7, 10)
     THEN <<"urgent_medical_evaluation">> ELSE <<>>)
    \o (IF cr.risk_assessment["psychological_risk"] > Frac(5, 10)
        THEN <<"psychological_intervention">> ELSE <<>>)
    \o (IF cr.risk_assessment["economic_risk"] > Frac(5, 10)
        THEN <<"social_worker_financial_support">> ELSE <<>>)
    \o (IF cr.consensus_score < Frac(5, 10)
        THEN <<"further_multidisciplinary_discussion", "second_opinion">> ELSE <<>>)

\* the steps appended by the consensus and risk rules
RuleSteps(cr) ==
    (IF cr.consensus_score < Frac(5, 10)
     THEN <<"further_multidisciplinary_discussion", "second_opinion">> ELSE <<>>)
    \o (IF cr.risk_assessment["medical_risk"] > Frac(7, 10)
        THEN <<"urgent_medical_evaluation">> ELSE <<>>)
    \o (IF cr.risk_assessment["psychological_risk"] > Frac(5, 10)
        THEN <<"psychological_intervention">> ELSE <<>>)
    \o (IF cr.risk_assessment["economic_risk"] > Frac(5, 10)
        THEN <<"social_worker_financial_support">> ELSE <<>>)

\* mutation of PrioritySteps: a priority of exactly 8.0 counts as high
PrioritySteps_AtLeast(cr) ==
    IF cr.weighted_priority >= Frac(8, 1) THEN <<"high_priority_48h">>
    ELSE IF cr.weighted_priority > Frac(6, 1) THEN <<"moderate_priority_one_week">>
    ELSE <<>>

\* next_steps.insert(0, ...) by priority
PrioritySteps(cr) ==
    IF cr.weighted_priority > Frac(8, 1) THEN <<"high_priority_48h">>
    ELSE IF cr.weighted_priority > Frac(6, 1) THEN <<"moderate_priority_one_week">>
    ELSE <<>>

\* mutation of determine_next_steps: the default step closes every list
determine_next_steps_DefaultAppended(cr) ==
    PrioritySteps(cr) \o RuleSteps(cr) \o <<"proceed_with_plan">>

determine_next_steps(cr) ==
    LET next_steps == PrioritySteps(cr) \o RuleSteps(cr)
    IN  IF next_steps # <<>> THEN next_steps ELSE <<"proceed_with_plan">>

\* mutation of create_follow_up_plan: the medical risk alone decides on the
\* short-term checklist
create_follow_up_plan_MedicalOnly(cr) ==
    [short_term |->
         IF cr.risk_assessment["medical_risk"] > Frac(6, 10)
         THEN <<"symptom_monitoring", "treatment_response", "side_effect_management">>
         ELSE <<>>,
     medium_term |-> <<"efficacy_assessment", "quality_of_life_assessment",
                       "psychological_assessment">>,
     long_term |-> <<"regular_review", "recurrence_monitoring", "rehabilitation_assessment">>]

create_follow_up_plan(cr) ==
    [short_term |->
         IF \E k \in DOMAIN cr.risk_assessment : cr.risk_assessment[k] > Frac(6, 10)
         THEN <<"symptom_monitoring", "treatment_response", "side_effect_management">>
         ELSE <<>>,
     medium_term |-> <<"efficacy_assessment", "quality_of_life_assessment",
                       "psychological_assessment">>,
     long_term |-> <<"regular_review", "recurrence_monitoring", "rehabilitation_assessment">>]

\* len(final_recommendation.split('\n'))
LineCount(fr) ==
    3 + (IF fr.core # <<>> THEN 1 + Len(fr.core) ELSE 0)
      + (IF fr.supplementary # <<>> THEN 2 + Len(fr.supplementary) ELSE 0)
      + (IF fr.concerns # <<>> THEN 2 + Len(fr.concerns) ELSE 0)

calculate_quality_metrics(ops, cr) ==
    [opinion_diversity |->
         Div(Cardinality({ops[i].role : i \in 1..Len(ops)}), Cardinality(AgentRole)),
     average_confidence |-> Sum(confidences(ops)) \div Len(ops),
     consensus_strength |-> cr.consensus_score,
     risk_coverage |->
         Div(Cardinality({k \in DOMAIN cr.risk_assessment : cr.risk_assessment[k] > 0}),
             Cardinality(DOMAIN cr.risk_assessment)),
     recommendation_completeness |->
         Min(Div(LineCount(cr.final_recommendation), 10), Scale)]

DecisionReport(case, ops, cr) ==
    [case_id |-> case,
     consensus_result |-> cr,
     agent_opinions |-> ops,
     decision_summary |-> generate_decision_summary(cr),
     next_steps |-> determine_next_steps(cr),
     follow_up_plan |-> create_follow_up_plan(cr),
     quality_metrics |-> calculate_quality_metrics(ops, cr)]

-----------------------------------------------------------------------------
(* Inputs *)

\* the concerns the modelled specialists raise
MetastasisRisk == <<"zhuan", "yi_move", "feng", "xian">>

DepressionTendency == <<"yi_press", "yu", "qing", "xiang">>

EconomicBurdenSelfCare ==
    <<"jing", "ji", "fu_bear", "dan", "ying", "xiang_sound", "zi", "li">>

DecisionPressure == <<"jue", "ce", "ya", "li_force">>

ConcernPool == {MetastasisRisk, DepressionTendency, EconomicBurdenSelfCare, DecisionPressure}

\* the concern lists of one opinion: none, one concern, or one followed by
\* a concern without any keyword
ConcernLists ==
    {<<>>} \cup {<<c>> : c \in ConcernPool}
           \cup {<<c, DecisionPressure>> : c \in ConcernPool}

\* the iteration orders of a set of these strings that a process may have
HashOrders ==
    {<<MetastasisRisk, DepressionTendency, EconomicBurdenSelfCare, DecisionPressure>>,
     <<DecisionPressure, EconomicBurdenSelfCare, DepressionTendency, MetastasisRisk>>}

MaxOpinions == 2
MaxHistory == 2

Narrative == <<"narrative">>

\* the opinions of the list get the agent ids "1", "2", ... of their positions
WithAgentIds(ops) == [i \in 1..Len(ops) |-> [ops[i] EXCEPT !.agent_id = ToString(i)]]

\* opinions that differ in role, confidence and recommendations; the
\* confidence 1.5 is one a specialist's unvalidated reply can carry
ScoreOpinions ==
    {AgentOpinion("", role, Narrative, conf, recs, <<>>, Frac(5, 1)) :
        role \in {ONCOLOGIST, RADIOLOGIST},
        conf \in {Frac(3, 10), Frac(5, 10), Frac(9, 10), Frac(15, 10)},
        recs \in {<<>>, <<"biopsy">>, <<"biopsy", "MRI">>}}

ScoreInputs == {WithAgentIds(ops) : ops \in SeqsUpTo(ScoreOpinions, MaxOpinions)}

\* opinions that differ in role and concerns
RiskOpinions ==
    {AgentOpinion("", role, Narrative, Frac(3, 10), <<"biopsy">>, concerns, Frac(5, 1)) :
        role \in {ONCOLOGIST, RADIOLOGIST, PSYCHOLOGIST, PATIENT_ADVOCATE},
        concerns \in ConcernLists}

RiskInputs == {WithAgentIds(ops) : ops \in SeqsUpTo(RiskOpinions, MaxOpinions)}

ConsensusInputs == ScoreInputs \cup RiskInputs

\* the opinions given to one engine over its life
EngineOpinions ==
    {AgentOpinion("", ONCOLOGIST, Narrative, Frac(9, 10), <<"biopsy">>,
                  <<MetastasisRisk, DecisionPressure>>, Frac(9, 1)),
     AgentOpinion("", PATIENT_ADVOCATE, Narrative, Frac(3, 10), <<"MRI">>,
                  <<EconomicBurdenSelfCare, DecisionPressure>>, Frac(5, 1))}

EngineInputs == {WithAgentIds(ops) : ops \in SeqsUpTo(EngineOpinions, MaxOpinions)}

\* three specialists who state a confidence each; the rest is fixed
RevisableOpinions(confs) ==
    <<AgentOpinion("1", ONCOLOGIST, Narrative, confs[1], <<"biopsy">>, <<>>, Frac(5, 1)),
      AgentOpinion("2", NURSE, Narrative, confs[2], <<"biopsy">>, <<>>, Frac(5, 1)),
      AgentOpinion("3", PATIENT_ADVOCATE, Narrative, confs[3], <<"MRI">>, <<>>, Frac(5, 1))>>

RevisionInputs ==
    {RevisableOpinions(confs) :
        confs \in [1..3 -> {0, Frac(5, 10), Frac(7, 10), Scale}]}

\* The specialists of a panel in the order in which their opinions are
\* collected; a configuration includes some of them.
Panel == <<ONCOLOGIST, PSYCHOLOGIST, PATIENT_ADVOCATE>>

\* the concern of a specialist that holds a keyword of the specialist's risk
OwnConcern(role) ==
    CASE role = ONCOLOGIST -> MetastasisRisk
      [] role = PSYCHOLOGIST -> DepressionTendency
      [] role = PATIENT_ADVOCATE -> EconomicBurdenSelfCare

\* the confidence and priority_score a specialist states
Assessments ==
    {[confidence |-> Frac(3, 10), priority_score |-> Frac(6, 1)],
     [confidence |-> Frac(9, 10), priority_score |-> Frac(8, 1)],
     [confidence |-> Frac(9, 10), priority_score |-> Frac(9, 1)]}

\* the opinions of one specialist: with or without recommendation and concern
PanelOpinions(role) ==
    {AgentOpinion("", role, Narrative, a.confidence, recs, concerns, a.priority_score) :
        a \in Assessments,
        recs \in {<<>>, <<"biopsy">>, <<"MRI">>},
        concerns \in {<<>>, <<OwnConcern(role)>>}}

\* the selections of up to MaxOpinions specialists, in panel order
PanelSelections ==
    {sel \in SeqsUpTo(1..Len(Panel), MaxOpinions) :
        \A i, j \in 1..Len(sel) : i < j => sel[i] < sel[j]}

RECURSIVE OpinionsOf(_)
\* the opinion lists the selected specialists can give
OpinionsOf(sel) ==
    IF sel = <<>> THEN {<<>>}
    ELSE {<<o>> \o rest : o \in PanelOpinions(Panel[Head(sel)]),
                          rest \in OpinionsOf(Tail(sel))}

\* the non-empty opinion lists that satisfy the declared ranges of AgentOpinion
DecisionInputs ==
    {WithAgentIds(ops) : ops \in UNION {OpinionsOf(sel) : sel \in PanelSelections \ {<<>>}}}

\* opinions whose role may be a value outside AgentRole
UnknownRoleOpinions ==
    {AgentOpinion("", role, Narrative, conf, recs, <<>>, prio) :
        role \in {ONCOLOGIST, PlainRole, ForeignRole},
        conf \in {Frac(3, 10), Frac(9, 10)},
        recs \in {<<"biopsy">>, <<"MRI">>},
        prio \in {Frac(5, 1), Frac(9, 1)}}

UnknownRoleInputs ==
    {WithAgentIds(ops) : ops \in SeqsUpTo(UnknownRoleOpinions, MaxOpinions) \ {<<>>}}

\* the recommendation lists of one opinion: one item, an item listed twice,
\* three items, six items, and the six with a seventh
RecommendationLists ==
    {<<"biopsy">>,
     <<"biopsy", "biopsy">>,
     <<"MRI", "biopsy", "chemotherapy">>,
     <<"PET_CT", "genetic_test", "MRI", "biopsy", "chemotherapy", "follow_up">>,
     <<"PET_CT", "genetic_test", "MRI", "biopsy", "chemotherapy", "follow_up",
       "nutrition">>}

\* opinions that differ in weight and recommendations
RankingOpinions ==
    {AgentOpinion("", a.role, Narrative, a.confidence, recs, <<>>, Frac(5, 1)) :
        a \in {[role |-> ONCOLOGIST, confidence |-> Frac(5, 10)],
               [role |-> ONCOLOGIST, confidence |-> Frac(9, 10)],
               [role |-> NURSE, confidence |-> Frac(9, 10)]},
        recs \in RecommendationLists}

RankingInputs ==
    {WithAgentIds(ops) : ops \in SeqsUpTo(RankingOpinions, MaxOpinions) \ {<<>>}}

\* opinions of agents built with their default agent_id: two oncologist
\* agents both sign "onco_001"
DissentOpinions ==
    {AgentOpinion(a.agent_id, a.role, Narrative, conf, recs, concerns, Frac(5, 1)) :
        a \in {[agent_id |-> "onco_001", role |-> ONCOLOGIST],
               [agent_id |-> "radiologist_001", role |-> RADIOLOGIST]},
        conf \in {Frac(3, 10), Frac(9, 10)},
        recs \in {<<"biopsy">>, <<"MRI">>},
        concerns \in {<<>>, <<MetastasisRisk>>, <<MetastasisRisk, DecisionPressure>>}}

DissentInputs == SeqsUpTo(DissentOpinions, MaxOpinions) \ {<<>>}

\* opinions for the summary: an oncologist with no, a full or a half share
\* of keyword concerns, a psychologist, and a radiologist and a nurse who
\* raise the same concerns
SummaryOpinions ==
    {AgentOpinion("", ONCOLOGIST, Narrative, a.confidence, <<"biopsy">>, concerns,
                  a.priority_score) :
        a \in {[confidence |-> Frac(3, 10), priority_score |-> Frac(6, 1)],
               [confidence |-> Frac(9, 10), priority_score |-> Frac(9, 1)]},
        concerns \in {<<>>, <<MetastasisRisk>>, <<MetastasisRisk, DecisionPressure>>}}
    \cup
    {AgentOpinion("", PSYCHOLOGIST, Narrative, Frac(9, 10), <<"MRI">>, concerns, Frac(5, 1)) :
        concerns \in {<<>>, <<DepressionTendency>>}}
    \cup
    {AgentOpinion("", RADIOLOGIST, Narrative, conf, <<"biopsy">>, <<MetastasisRisk>>,
                  Frac(5, 1)) :
        conf \in {Frac(3, 10), Frac(9, 10)}}
    \cup
    {AgentOpinion("", NURSE, Narrative, Frac(9, 10), <<"MRI">>, <<DepressionTendency>>,
                  Frac(5, 1))}

SummaryInputs ==
    {WithAgentIds(ops) : ops \in SeqsUpTo(SummaryOpinions, MaxOpinions) \ {<<>>}}

\* the threads that call make_decision of one engine at the same time
MaxCallers == 2

Callers == 1..MaxCallers

\* the opinions argument of a concurrent caller
ConcurrentInputs == {<<>>} \cup {WithAgentIds(<<o>>) : o \in EngineOpinions}

\* new is old with the confidence of exactly one specialist changed
OneRevised(old, new) ==
    /\ Len(new) = Len(old)
    /\ Cardinality({i \in 1..Len(old) : new[i] # old[i]}) = 1
    /\ \A i \in 1..Len(old) : new[i] = [old[i] EXCEPT !.confidence = new[i].confidence]

-----------------------------------------------------------------------------
(* The process *)

NoResult == [none |-> TRUE]

\* a thread that has not called make_decision
IdleCaller == [pc |-> "idle", case_id |-> "none", opinions |-> <<>>, report |-> NoResult]

\* a process has started and holds a new DecisionEngine; nothing has been called
Started ==
    /\ hash_order \in HashOrders
    /\ case_id = "none"
    /\ error = "none"
    /\ consensus_result = NoResult
    /\ decision_report = NoResult
    /\ decision_history = <<>>
    /\ consensus_matrix = NewConsensusMatrix
    /\ callers = [t \in Callers |-> IdleCaller]

\* a caller invokes an entry point with a new argument
Call(entry, case, ops) ==
    /\ outcome # "pending"
    /\ called' = entry
    /\ outcome' = "pending"
    /\ case_id' = case
    /\ opinions' = ops
    /\ error' = "none"
    /\ consensus_result' = NoResult
    /\ decision_report' = NoResult
    /\ UNCHANGED <<hash_order, decision_history, consensus_matrix, callers>>

\* a caller that holds the result of a call repeats calculate_consensus with
\* the same argument, to compare the two results
Recall ==
    /\ outcome # "pending"
    /\ consensus_result # NoResult
    /\ called' = "calculate_consensus"
    /\ outcome' = "pending"
    /\ UNCHANGED <<hash_order, case_id, opinions, error, consensus_result,
                   decision_report, decision_history, consensus_matrix, callers>>

\* mutation of CalculateConsensus: without the check of the argument the
\* empty list reaches np.average, which raises for weights that sum to zero
CalculateConsensus_Unchecked ==
    /\ called = "calculate_consensus"
    /\ outcome = "pending"
    /\ IF opinions = <<>>
       THEN /\ outcome' = "raised"
            /\ error' = "ZeroDivisionError"
            /\ UNCHANGED consensus_result
       ELSE /\ outcome' = "returned"
            /\ error' = "none"
            /\ \E rounding \in MeanRoundings(opinions) :
                   consensus_result' = ConsensusResult(opinions, hash_order, rounding)
    /\ UNCHANGED <<hash_order, called, case_id, opinions, decision_report,
                   decision_history, consensus_matrix, callers>>

\* mutation of CalculateConsensus: an opinion without recommendations is
\* given a default recommendation in place before the computation
CalculateConsensus_FillsDefaults ==
    LET filled == [i \in 1..Len(opinions) |->
                      IF opinions[i].recommendations = <<>>
                      THEN [opinions[i] EXCEPT !.recommendations = <<"biopsy">>]
                      ELSE opinions[i]]
    IN  /\ called = "calculate_consensus"
        /\ outcome = "pending"
        /\ opinions' = filled
        /\ IF ErrorOf(filled) # "none"
           THEN /\ outcome' = "raised"
                /\ error' = ErrorOf(filled)
                /\ UNCHANGED consensus_result
           ELSE /\ outcome' = "returned"
                /\ error' = "none"
                /\ \E rounding \in MeanRoundings(filled) :
                       consensus_result' = ConsensusResult(filled, hash_order, rounding)
        /\ UNCHANGED <<hash_order, called, case_id, decision_report,
                       decision_history, consensus_matrix, callers>>

\* ConsensusMatrix.calculate_consensus(opinions)
CalculateConsensus ==
    /\ called = "calculate_consensus"
    /\ outcome = "pending"
    /\ IF ErrorOf(opinions) # "none"
       THEN /\ outcome' = "raised"
            /\ error' = ErrorOf(opinions)
            /\ UNCHANGED consensus_result
       ELSE /\ outcome' = "returned"
            /\ error' = "none"
            /\ \E rounding \in MeanRoundings(opinions) :
                   consensus_result' = ConsensusResult(opinions, hash_order, rounding)
    /\ UNCHANGED <<hash_order, called, case_id, opinions, decision_report,
                   decision_history, consensus_matrix, callers>>

\* mutation of MakeDecision: the error of calculate_consensus is caught and
\* a placeholder report is recorded and returned
MakeDecision_Placeholder ==
    /\ called = "make_decision"
    /\ outcome = "pending"
    /\ IF ErrorOf(opinions) # "none"
       THEN LET report == [case_id |-> case_id, consensus_result |-> NoResult,
                           agent_opinions |-> opinions]
            IN  /\ outcome' = "returned"
                /\ error' = "none"
                /\ decision_report' = report
                /\ decision_history' = Append(decision_history, report)
                /\ UNCHANGED consensus_result
       ELSE \E rounding \in MeanRoundings(opinions) :
            LET cr == ConsensusResult(opinions, hash_order, rounding)
                report == DecisionReport(case_id, opinions, cr)
            IN  /\ outcome' = "returned"
                /\ error' = "none"
                /\ consensus_result' = cr
                /\ decision_report' = report
                /\ decision_history' = Append(decision_history, report)
    /\ UNCHANGED <<hash_order, called, case_id, opinions, consensus_matrix, callers>>

\* mutation of MakeDecision: the history keeps the latest report only
MakeDecision_KeepsLatest ==
    /\ called = "make_decision"
    /\ outcome = "pending"
    /\ IF ErrorOf(opinions) # "none"
       THEN /\ outcome' = "raised"
            /\ error' = ErrorOf(opinions)
            /\ UNCHANGED <<consensus_result, decision_report, decision_history>>
       ELSE \E rounding \in MeanRoundings(opinions) :
            LET cr == ConsensusResult(opinions, hash_order, rounding)
                report == DecisionReport(case_id, opinions, cr)
            IN  /\ outcome' = "returned"
                /\ error' = "none"
                /\ consensus_result' = cr
                /\ decision_report' = report
                /\ decision_history' = <<report>>
    /\ UNCHANGED <<hash_order, called, case_id, opinions, consensus_matrix, callers>>

\* DecisionEngine.make_decision(case, opinions)
MakeDecision ==
    /\ called = "make_decision"
    /\ outcome = "pending"
    /\ IF ErrorOf(opinions) # "none"
       THEN /\ outcome' = "raised"
            /\ error' = ErrorOf(opinions)
            /\ UNCHANGED <<consensus_result, decision_report, decision_history>>
       ELSE \E rounding \in MeanRoundings(opinions) :
            LET cr == ConsensusResult(opinions, hash_order, rounding)
                report == DecisionReport(case_id, opinions, cr)
            IN  /\ outcome' = "returned"
                /\ error' = "none"
                /\ consensus_result' = cr
                /\ decision_report' = report
                /\ decision_history' = Append(decision_history, report)
    /\ UNCHANGED <<hash_order, called, case_id, opinions, consensus_matrix, callers>>

\* The process ends and the program is started again: the engine of the new
\* process has an empty history, and str hashes are seeded anew.  What the
\* caller got from the last call stays with the caller.
Restart ==
    /\ outcome # "pending"
    /\ hash_order' \in HashOrders
    /\ decision_history' = <<>>
    /\ consensus_matrix' = NewConsensusMatrix
    /\ UNCHANGED <<called, case_id, opinions, outcome, error, consensus_result,
                   decision_report, callers>>

Init ==
    /\ Started
    /\ called = "none"
    /\ outcome = "none"
    /\ opinions = <<>>

CallEngine ==
    \E entry \in {"calculate_consensus", "make_decision"}, ops \in EngineInputs :
        /\ entry = "make_decision" => Len(decision_history) < MaxHistory
        /\ Call(entry, "case_1", ops)

Next ==
    \/ CallEngine
    \/ Recall
    \/ CalculateConsensus
    \/ MakeDecision
    \/ Restart

Spec == Init /\ [][Next]_vars

\* calculate_consensus applied to one argument
InitConsensus ==
    /\ Started
    /\ called = "calculate_consensus"
    /\ outcome = "pending"
    /\ opinions \in ConsensusInputs

NextConsensus == CalculateConsensus

SpecConsensus == InitConsensus /\ [][NextConsensus]_vars

\* a case is decided, then one specialist at a time revises the confidence
\* and the case is decided again
CallRevision ==
    \E ops \in RevisionInputs :
        /\ Len(decision_history) < MaxHistory
        /\ decision_history # <<>> =>
               OneRevised(decision_history[Len(decision_history)].agent_opinions, ops)
        /\ Call("make_decision", "case_1", ops)

NextRevision == CallRevision \/ MakeDecision

SpecRevision == Init /\ [][NextRevision]_vars

\* one of the two entry points applied to the opinions of a panel
InitDecision ==
    /\ Started
    /\ called \in {"calculate_consensus", "make_decision"}
    /\ outcome = "pending"
    /\ opinions \in DecisionInputs

NextDecision == CalculateConsensus \/ MakeDecision

SpecDecision == InitDecision /\ [][NextDecision]_vars

\* calculate_consensus applied to opinions with roles outside AgentRole
InitUnknownRole ==
    /\ Started
    /\ called = "calculate_consensus"
    /\ outcome = "pending"
    /\ opinions \in UnknownRoleInputs

SpecUnknownRole == InitUnknownRole /\ [][NextConsensus]_vars

\* calculate_consensus applied to opinions with several recommendations
InitRanking ==
    /\ Started
    /\ called = "calculate_consensus"
    /\ outcome = "pending"
    /\ opinions \in RankingInputs

SpecRanking == InitRanking /\ [][NextConsensus]_vars

\* calculate_consensus applied to opinions that may share an agent_id
InitDissent ==
    /\ Started
    /\ called = "calculate_consensus"
    /\ outcome = "pending"
    /\ opinions \in DissentInputs

SpecDissent == InitDissent /\ [][NextConsensus]_vars

\* make_decision applied to opinions with low, medium and high risks
InitSummary ==
    /\ Started
    /\ called = "make_decision"
    /\ outcome = "pending"
    /\ opinions \in SummaryInputs

NextSummary == MakeDecision

SpecSummary == InitSummary /\ [][NextSummary]_vars

\* Threads inside make_decision of one engine.  The method holds no lock.
\* Lines 16-27 read the arguments only; line 30 is one call of list.append,
\* which the interpreter runs as a single step that no other thread can
\* interleave with.
CallerCalls(t) ==
    \E ops \in ConcurrentInputs :
        /\ callers[t].pc = "idle"
        /\ callers' = [callers EXCEPT ![t] =
               [pc |-> "consensus", case_id |-> ToString(t), opinions |-> ops,
                report |-> NoResult]]
        /\ UNCHANGED <<hash_order, called, case_id, opinions, outcome, error,
                       consensus_result, decision_report, decision_history,
                       consensus_matrix>>

\* make_decision lines 16-27: the consensus and the report, or the exception
CallerBuildsReport(t) ==
    LET c == callers[t]
    IN  /\ c.pc = "consensus"
        /\ \E rounding \in MeanRoundings(c.opinions) :
               callers' = [callers EXCEPT ![t] =
                   IF ErrorOf(c.opinions) # "none"
                   THEN [c EXCEPT !.pc = "raised"]
                   ELSE [c EXCEPT !.pc = "append",
                                  !.report = DecisionReport(c.case_id, c.opinions,
                                      ConsensusResult(c.opinions, hash_order, rounding))]]
        /\ UNCHANGED <<hash_order, called, case_id, opinions, outcome, error,
                       consensus_result, decision_report, decision_history,
                       consensus_matrix>>

\* mutation of CallerAppends: the list is replaced by a longer copy, and the
\* copy loses the entry of a thread that has appended and not yet returned
CallerAppends_Racing(t) ==
    /\ callers[t].pc = "append"
    /\ decision_history' =
           IF \E u \in Callers \ {t} : callers[u].pc = "return"
           THEN <<callers[t].report>>
           ELSE Append(decision_history, callers[t].report)
    /\ callers' = [callers EXCEPT ![t].pc = "return"]
    /\ UNCHANGED <<hash_order, called, case_id, opinions, outcome, error,
                   consensus_result, decision_report, consensus_matrix>>

\* make_decision line 30: self.decision_history.append(decision_report)
CallerAppends(t) ==
    /\ callers[t].pc = "append"
    /\ decision_history' = Append(decision_history, callers[t].report)
    /\ callers' = [callers EXCEPT ![t].pc = "return"]
    /\ UNCHANGED <<hash_order, called, case_id, opinions, outcome, error,
                   consensus_result, decision_report, consensus_matrix>>

\* make_decision line 32: return decision_report
CallerReturns(t) ==
    /\ callers[t].pc = "return"
    /\ callers' = [callers EXCEPT ![t].pc = "returned"]
    /\ UNCHANGED <<hash_order, called, case_id, opinions, outcome, error,
                   consensus_result, decision_report, decision_history,
                   consensus_matrix>>

NextConcurrent ==
    \E t \in Callers :
        \/ CallerCalls(t)
        \/ CallerBuildsReport(t)
        \/ CallerAppends(t)
        \/ CallerReturns(t)

SpecConcurrent == Init /\ [][NextConcurrent]_vars

-----------------------------------------------------------------------------
(* Properties *)

ConsensusReturned == called = "calculate_consensus" /\ outcome = "returned"

\* 0 <= confidence <= 1 in every opinion
ValidConfidences(ops) ==
    \A i \in 1..Len(ops) : 0 <= ops[i].confidence /\ ops[i].confidence <= Scale

\* C1: calculate_consensus called with an empty opinion list ends by raising
\* ValueError, the language's invalid-argument error, and hands the caller
\* no ConsensusResult.
C1_EmptyConsensusRaises ==
    [][(called = "calculate_consensus" /\ outcome = "pending" /\ opinions = <<>>)
        => (outcome' = "raised" /\ error' = "ValueError"
            /\ consensus_result' = NoResult)]_vars

C1_Witness ==
    /\ called = "calculate_consensus"
    /\ opinions = <<>>
    /\ outcome = "raised"
    /\ error = "ValueError"

\* C2: make_decision called with an empty opinion list ends with the
\* ValueError of calculate_consensus; the caller gets no report and the
\* decision history is what it was before the call.
C2_EmptyDecisionRaises ==
    [][(called = "make_decision" /\ outcome = "pending" /\ opinions = <<>>)
        => (outcome' = "raised" /\ error' = "ValueError"
            /\ decision_report' = NoResult
            /\ consensus_result' = NoResult
            /\ decision_history' = decision_history)]_vars

C2_Witness ==
    /\ called = "make_decision"
    /\ opinions = <<>>
    /\ outcome = "raised"
    /\ error = "ValueError"
    /\ decision_report = NoResult
    /\ Len(decision_history) = 1

\* C3: for a non-empty list of opinions with confidences in [0, 1] the
\* consensus score returned is in [0, 1].
C3_ScoreInUnitInterval ==
    (ConsensusReturned /\ ValidConfidences(opinions))
        => (0 <= consensus_result.consensus_score
            /\ consensus_result.consensus_score <= Scale)

\* two opinions with different valid confidences and some recommendation
\* repeated: the score is strictly inside the interval
C3_Witness ==
    /\ ConsensusReturned
    /\ ValidConfidences(opinions)
    /\ Len(opinions) = 2
    /\ opinions[1].confidence # opinions[2].confidence
    /\ overlapping_count(opinions) > 0
    /\ 0 < consensus_result.consensus_score
    /\ consensus_result.consensus_score < Scale

\* C4: for a non-empty list of opinions with confidences in [0, 1] the
\* confidence interval returned satisfies 0 <= lower <= upper <= 1.
C4_IntervalOrderedInUnitInterval ==
    (ConsensusReturned /\ ValidConfidences(opinions))
        => (0 <= consensus_result.confidence_interval[1]
            /\ consensus_result.confidence_interval[1]
                   <= consensus_result.confidence_interval[2]
            /\ consensus_result.confidence_interval[2] <= Scale)

\* the clamp acted: mean plus margin exceeds 1 and the upper bound is 1
C4_Witness ==
    /\ ConsensusReturned
    /\ ValidConfidences(opinions)
    /\ Len(opinions) = 2
    /\ weighted_confidence(opinions)
           + margin_error(confidences(opinions), role_weights(opinions)) > Scale
    /\ consensus_result.confidence_interval[2] = Scale
    /\ consensus_result.confidence_interval[1] > 0

\* the role whose opinion decides a risk category
AuthoritativeRole(key) ==
    CASE key = "medical_risk" -> ONCOLOGIST
      [] key = "psychological_risk" -> PSYCHOLOGIST
      [] key = "economic_risk" -> PATIENT_ADVOCATE
      [] key = "quality_of_life_risk" -> PATIENT_ADVOCATE

\* no opinion of the authoritative role of the category has a concern
NoEvidence(ops, key) ==
    \A i \in 1..Len(ops) :
        ops[i].role = AuthoritativeRole(key) => ops[i].concerns = <<>>

\* C5: the risk assessment returned has exactly the four category keys,
\* every value is in [0, 1], and a category without evidence (its role is
\* absent, or its role's opinions have no concerns) has the value 0.
C5_RiskKeysRangeDefault ==
    ConsensusReturned
        => (/\ DOMAIN consensus_result.risk_assessment = RiskKeys
            /\ \A k \in RiskKeys :
                   /\ 0 <= consensus_result.risk_assessment[k]
                   /\ consensus_result.risk_assessment[k] <= Scale
                   /\ NoEvidence(opinions, k)
                          => consensus_result.risk_assessment[k] = 0)

\* an oncologist with one keyword concern out of two, a patient advocate
\* without concerns, no psychologist
C5_Witness ==
    /\ ConsensusReturned
    /\ Len(opinions) = 2
    /\ opinions[1].role = ONCOLOGIST
    /\ opinions[1].concerns = <<MetastasisRisk, DecisionPressure>>
    /\ opinions[2].role = PATIENT_ADVOCATE
    /\ opinions[2].concerns = <<>>
    /\ consensus_result.risk_assessment["medical_risk"] = Frac(1, 2)
    /\ consensus_result.risk_assessment["psychological_risk"] = 0
    /\ consensus_result.risk_assessment["economic_risk"] = 0
    /\ consensus_result.risk_assessment["quality_of_life_risk"] = 0

\* C6: for a list of exactly one opinion the consensus score is 1.0 and
\* there are no dissenting opinions.
C6_SingleOpinion ==
    (ConsensusReturned /\ Len(opinions) = 1)
        => (consensus_result.consensus_score = Scale
            /\ consensus_result.dissenting_opinions = <<>>)

\* the single opinion has a confidence below 0.5 and concerns of its own
C6_Witness ==
    /\ ConsensusReturned
    /\ Len(opinions) = 1
    /\ opinions[1].confidence < Frac(5, 10)
    /\ opinions[1].concerns # <<>>
    /\ opinions[1].recommendations # <<>>
    /\ consensus_result.consensus_score = Scale

\* C7: a consensus score above 0.8 comes with no dissenting opinions.
C7_DissentSuppressed ==
    (ConsensusReturned /\ consensus_result.consensus_score > Frac(8, 10))
        => consensus_result.dissenting_opinions = <<>>

\* two opinions, a confidence below 0.5 and a concern the other opinion
\* does not have, and a score above 0.8
C7_Witness ==
    /\ ConsensusReturned
    /\ Len(opinions) = 2
    /\ consensus_result.consensus_score > Frac(8, 10)
    /\ \E i \in 1..2 : opinions[i].confidence < Frac(5, 10)
    /\ \E i \in 1..2 : unique_concerns(opinions, i) # {}
    /\ consensus_result.dissenting_opinions = <<>>

\* C8: calculate_consensus repeated with the same opinion list returns the
\* result the caller already holds for that list, in every field: the result
\* depends on nothing but the opinion list.
C8_SameInputSameResult ==
    [][(called = "calculate_consensus" /\ outcome = "pending"
            /\ consensus_result # NoResult /\ outcome' = "returned")
        => consensus_result' = consensus_result]_vars

\* the confidence of every opinion of new is the one of old, or lies between
\* the one of old and target: none moves away from target or past it
MovedToward(old, new, target) ==
    /\ Len(new) = Len(old)
    /\ \A i \in 1..Len(old) :
           /\ new[i] = [old[i] EXCEPT !.confidence = new[i].confidence]
           /\ \/ new[i].confidence = old[i].confidence
              \/ old[i].confidence < new[i].confidence /\ new[i].confidence <= target
              \/ target <= new[i].confidence /\ new[i].confidence < old[i].confidence

\* the decisions i and j of the history, j the later one
ScoreOfDecision(i) == decision_history[i].consensus_result.consensus_score

\* C9 as stated: when the opinions of a later decision are those of an
\* earlier one with confidences moved toward the role-weighted mean
\* confidence, the later consensus score is not lower.
C9_MonotoneTowardWeightedMean ==
    \A i, j \in 1..Len(decision_history) :
        (i < j /\ MovedToward(decision_history[i].agent_opinions,
                              decision_history[j].agent_opinions,
                              weighted_confidence(decision_history[i].agent_opinions)))
            => ScoreOfDecision(j) >= ScoreOfDecision(i)

\* C9 amended: when the opinions of a later decision are those of an earlier
\* one with confidences moved toward the plain arithmetic mean of the
\* confidences, the later consensus score is not lower.
C9_MonotoneTowardMean ==
    \A i, j \in 1..Len(decision_history) :
        (i < j /\ MovedToward(decision_history[i].agent_opinions,
                              decision_history[j].agent_opinions,
                              Mean(confidences(decision_history[i].agent_opinions))))
            => ScoreOfDecision(j) >= ScoreOfDecision(i)

\* a specialist moved toward the mean and the score rose
C9_Witness ==
    /\ Len(decision_history) = 2
    /\ decision_history[1].agent_opinions # decision_history[2].agent_opinions
    /\ MovedToward(decision_history[1].agent_opinions,
                   decision_history[2].agent_opinions,
                   Mean(confidences(decision_history[1].agent_opinions)))
    /\ ScoreOfDecision(2) > ScoreOfDecision(1)

\* the scenario: the first of two opinions recommends biopsy and MRI, the
\* second biopsy
BiopsyScenario ==
    /\ ConsensusReturned
    /\ Len(opinions) = 2
    /\ opinions[1].recommendations = <<"biopsy", "MRI">>
    /\ opinions[2].recommendations = <<"biopsy">>
    /\ ValidConfidences(opinions)

\* the score that results from the overlap ratio num/den
ScoreWithOverlap(num, den) ==
    Mul(Frac(7, 10), Div(num, den)) + Mul(Frac(3, 10), confidence_consistency(opinions))

\* C10 as stated: in the scenario the overlap ratio in the score is 1/3.
C10_OverlapOneThird ==
    BiopsyScenario
        => (/\ 3 * overlapping_count(opinions) = total_recommendations(opinions)
            /\ consensus_result.consensus_score = ScoreWithOverlap(1, 3))

\* C10 amended: in the scenario the overlap ratio in the score is 2/3: both
\* occurrences of "biopsy" count, out of 3 items.
C10_OverlapTwoThirds ==
    BiopsyScenario
        => (/\ 3 * overlapping_count(opinions) = 2 * total_recommendations(opinions)
            /\ consensus_result.consensus_score = ScoreWithOverlap(2, 3))

\* the scenario with the roles and confidences the spec gives it
C10_Witness ==
    /\ BiopsyScenario
    /\ opinions[1].role = ONCOLOGIST /\ opinions[1].confidence = Frac(9, 10)
    /\ opinions[2].role = RADIOLOGIST /\ opinions[2].confidence = Frac(3, 10)
    /\ consensus_result.consensus_score < Frac(8, 10)

\* calculate_consensus returned for an oncologist (weight 0.35) with
\* confidence 0.9 and a radiologist (weight 0.25) with confidence 0.3
WeightedConfidenceScenario ==
    /\ ConsensusReturned
    /\ role_weights(opinions) = <<Frac(35, 100), Frac(25, 100)>>
    /\ confidences(opinions) = <<Frac(9, 10), Frac(3, 10)>>

\* C11 as stated: in that scenario the weighted confidence is about 0.6375.
C11_WeightedConfidence06375 ==
    WeightedConfidenceScenario =>
        /\ weighted_confidence(opinions) >= Frac(6375, 10000) - Frac(1, 1000)
        /\ weighted_confidence(opinions) <= Frac(6375, 10000) + Frac(1, 1000)

\* C11: in that scenario the weighted confidence is
\* (0.35*0.9 + 0.25*0.3)/0.6 = 0.65, and the returned interval is this
\* centre minus and plus the margin, clamped to [0, 1].
C11_WeightedConfidence065 ==
    WeightedConfidenceScenario =>
        LET margin == margin_error(confidences(opinions), role_weights(opinions))
        IN  /\ weighted_confidence(opinions) =
                   Div(Mul(Frac(35, 100), Frac(9, 10)) + Mul(Frac(25, 100), Frac(3, 10)),
                       Frac(6, 10))
            /\ weighted_confidence(opinions) = Frac(65, 100)
            /\ consensus_result.confidence_interval[1] = Max(0, Frac(65, 100) - margin)
            /\ consensus_result.confidence_interval[2] = Min(Scale, Frac(65, 100) + margin)

C11_Witness ==
    /\ WeightedConfidenceScenario
    /\ weighted_confidence(opinions) = Frac(65, 100)
    /\ consensus_result.confidence_interval[1] > 0
    /\ consensus_result.confidence_interval[1] < Frac(65, 100)

DecisionReturned == called = "make_decision" /\ outcome = "returned"

\* C12: in a returned report, a weighted priority above 8.0 puts the
\* high-priority step first and leaves the moderate one out; a weighted
\* priority above 6.0 and up to 8.0 puts the moderate-priority step first and
\* leaves the high one out; up to 6.0 neither step is present.
C12_PriorityGating ==
    DecisionReturned =>
        LET wp == decision_report.consensus_result.weighted_priority
            ns == decision_report.next_steps
        IN  /\ wp > Frac(8, 1) =>
                   /\ ns[1] = "high_priority_48h"
                   /\ "moderate_priority_one_week" \notin Range(ns)
            /\ (wp > Frac(6, 1) /\ wp <= Frac(8, 1)) =>
                   /\ ns[1] = "moderate_priority_one_week"
                   /\ "high_priority_48h" \notin Range(ns)
            /\ wp <= Frac(6, 1) =>
                   /\ "high_priority_48h" \notin Range(ns)
                   /\ "moderate_priority_one_week" \notin Range(ns)

\* a weighted priority of exactly 8.0, in front of steps the rules added
C12_Witness ==
    /\ DecisionReturned
    /\ decision_report.consensus_result.weighted_priority = Frac(8, 1)
    /\ decision_report.next_steps[1] = "moderate_priority_one_week"
    /\ Len(decision_report.next_steps) > 1

\* none of the five conditions of _determine_next_steps holds
NoRuleFires(cr) ==
    /\ cr.consensus_score >= Frac(5, 10)
    /\ cr.risk_assessment["medical_risk"] <= Frac(7, 10)
    /\ cr.risk_assessment["psychological_risk"] <= Frac(5, 10)
    /\ cr.risk_assessment["economic_risk"] <= Frac(5, 10)
    /\ cr.weighted_priority <= Frac(6, 1)

\* C13: next_steps of a returned report is never empty; it is the default
\* step alone when no rule fires, and does not hold the default step when a
\* rule fires.
C13_NextStepsDefault ==
    DecisionReturned =>
        LET cr == decision_report.consensus_result
            ns == decision_report.next_steps
        IN  /\ ns # <<>>
            /\ NoRuleFires(cr) => ns = <<"proceed_with_plan">>
            /\ ~NoRuleFires(cr) => "proceed_with_plan" \notin Range(ns)

\* several opinions, and no rule fires
C13_Witness ==
    /\ DecisionReturned
    /\ Len(opinions) > 1
    /\ NoRuleFires(decision_report.consensus_result)
    /\ decision_report.next_steps = <<"proceed_with_plan">>

\* C14: follow_up_plan of a returned report has the keys short_term,
\* medium_term and long_term; short_term is the fixed checklist if a risk
\* exceeds 0.6 and empty otherwise, so it is empty when no opinion has a
\* concern; medium_term and long_term are the fixed checklists.
C14_FollowUpPlan ==
    DecisionReturned =>
        LET risks == decision_report.consensus_result.risk_assessment
            plan == decision_report.follow_up_plan
        IN  /\ DOMAIN plan = {"short_term", "medium_term", "long_term"}
            /\ plan.short_term =
                   IF \E k \in RiskKeys : risks[k] > Frac(6, 10)
                   THEN <<"symptom_monitoring", "treatment_response",
                          "side_effect_management">>
                   ELSE <<>>
            /\ (\A i \in 1..Len(opinions) : opinions[i].concerns = <<>>) =>
                   plan.short_term = <<>>
            /\ plan.medium_term = <<"efficacy_assessment", "quality_of_life_assessment",
                                    "psychological_assessment">>
            /\ plan.long_term = <<"regular_review", "recurrence_monitoring",
                                  "rehabilitation_assessment">>

\* the psychological risk alone exceeds 0.6
C14_Witness ==
    /\ DecisionReturned
    /\ decision_report.consensus_result.risk_assessment["psychological_risk"] > Frac(6, 10)
    /\ decision_report.consensus_result.risk_assessment["medical_risk"] = 0
    /\ Len(decision_report.follow_up_plan.short_term) = 3

\* C15: within the life of one engine the history only grows at its end: a
\* call of make_decision that returns appends the report it returns, and any
\* other step, a call that raises included, leaves the history as it is.
\* A restarted process has a new engine with a new history.
C15_HistoryAppendOnly ==
    [][\/ Restart
       \/ IF called = "make_decision" /\ outcome = "pending" /\ outcome' = "returned"
          THEN decision_history' = Append(decision_history, decision_report')
          ELSE decision_history' = decision_history]_vars

\* two calls have returned two different reports, kept in call order
C15_Witness ==
    /\ DecisionReturned
    /\ Len(decision_history) = 2
    /\ decision_history[2] = decision_report
    /\ decision_history[1] # decision_history[2]

\* the threads whose append has taken place
Appended == {t \in Callers : callers[t].pc \in {"return", "returned"}}

NoRecommendationScenario ==
    /\ ConsensusReturned
    /\ Len(opinions) >= 2
    /\ total_recommendations(opinions) = 0

\* C17 as stated: in that scenario the score is 0.3 * confidence_consistency.
C17_BlendWithoutRecommendations ==
    NoRecommendationScenario =>
        consensus_result.consensus_score =
            Mul(Frac(3, 10), confidence_consistency(opinions))

\* C17: in that scenario the score is 0.0, whatever the confidences are: the
\* function returns before the blend is computed.
C17_ZeroWithoutRecommendations ==
    NoRecommendationScenario => consensus_result.consensus_score = 0

\* equal confidences, for which the blend would give 0.3
C17_Witness ==
    /\ NoRecommendationScenario
    /\ opinions[1].confidence = opinions[2].confidence
    /\ Mul(Frac(3, 10), confidence_consistency(opinions)) = Frac(3, 10)
    /\ consensus_result.consensus_score = 0

\* C18: a call with a non-empty list of opinions within the declared ranges
\* never raises: calculate_consensus returns a result with its six fields and
\* make_decision a report with its seven fields, also when opinions have no
\* concerns, no recommendations, or there is one opinion only.
C18_ValidInputNeverRaises ==
    (opinions # <<>> /\ ValidConfidences(opinions)) =>
        /\ outcome # "raised"
        /\ error = "none"
        /\ ConsensusReturned =>
               DOMAIN consensus_result =
                   {"final_recommendation", "consensus_score", "weighted_priority",
                    "dissenting_opinions", "confidence_interval", "risk_assessment"}
        /\ DecisionReturned =>
               DOMAIN decision_report =
                   {"case_id", "consensus_result", "agent_opinions", "decision_summary",
                    "next_steps", "follow_up_plan", "quality_metrics"}

\* make_decision returned for opinions without recommendations and concerns
C18_Witness ==
    /\ DecisionReturned
    /\ Len(opinions) >= 2
    /\ \A i \in 1..Len(opinions) :
           opinions[i].recommendations = <<>> /\ opinions[i].concerns = <<>>
    /\ decision_report.next_steps # <<>>

\* an opinion has a role that the weight table does not hold
HasUnknownRole(ops) ==
    \E i \in 1..Len(ops) : ops[i].role \notin DOMAIN consensus_matrix.role_weights

\* C19: calculate_consensus completes for opinions with a role outside the
\* weight table, such a role weighing 0.2, also when dissent detection runs.
C19_UnknownRoleCompletes ==
    (called = "calculate_consensus" /\ outcome # "pending" /\ HasUnknownRole(opinions)) =>
        /\ outcome = "returned"
        /\ \A i \in 1..Len(opinions) :
               opinions[i].role \notin AgentRole =>
                   role_weights(opinions)[i] = Frac(2, 10)
        /\ consensus_result.weighted_priority =
               Average(priorities(opinions), role_weights(opinions))

\* C20: a call leaves its arguments and the two weight tables as they were;
\* calculate_consensus changes no state of the engine, and make_decision
\* changes the history only, by the report that holds the opinions given.
C20_InputsUnchanged ==
    [][(outcome = "pending" /\ outcome' # "pending") =>
          /\ opinions' = opinions
          /\ case_id' = case_id
          /\ consensus_matrix' = consensus_matrix
          /\ consensus_matrix' = NewConsensusMatrix
          /\ called = "calculate_consensus" =>
                 /\ decision_history' = decision_history
                 /\ decision_report' = decision_report
          /\ (called = "make_decision" /\ outcome' = "returned") =>
                 /\ decision_history' = Append(decision_history, decision_report')
                 /\ decision_report'.agent_opinions = opinions]_vars

\* a call has returned for opinions of which one lacks recommendations, and
\* the arguments and tables are those of the call
C20_Witness ==
    /\ outcome = "returned"
    /\ Len(opinions) >= 2
    /\ \E i \in 1..Len(opinions) : opinions[i].recommendations = <<>>
    /\ consensus_matrix = NewConsensusMatrix
    /\ DecisionReturned => decision_report.agent_opinions = opinions

\* the occurrence counts of the strings that occur more than once in s, summed
RepeatedOccurrences(s) ==
    LET distinct == Dedup(s)
    IN  Sum([k \in 1..Len(distinct) |->
                IF Count(s, distinct[k]) > 1 THEN Count(s, distinct[k]) ELSE 0])

\* C21: for two or more opinions with a recommendation the score is
\* min(0.7 * overlap_ratio + 0.3 * confidence_consistency, 1.0); the ratio is
\* the summed occurrence counts of the strings occurring more than once in
\* the flattened list, repeats inside one opinion counted, over the length
\* of that list, and the consistency is 1 - min(std, 0.5)/0.5 with the
\* unweighted standard deviation of the confidences.
C21_ScoreFormula ==
    (ConsensusReturned /\ Len(opinions) >= 2
        /\ \E i \in 1..Len(opinions) : opinions[i].recommendations # <<>>) =>
        LET flat == Flatten([i \in 1..Len(opinions) |-> opinions[i].recommendations])
            overlap_ratio == Div(RepeatedOccurrences(flat), Len(flat))
            std == Std([i \in 1..Len(opinions) |-> opinions[i].confidence])
            consistency == Scale - Div(Min(std, Frac(5, 10)), Frac(5, 10))
        IN  consensus_result.consensus_score =
                Min(Mul(Frac(7, 10), overlap_ratio) + Mul(Frac(3, 10), consistency), Scale)

\* the only repeats are those inside one opinion
C21_Witness ==
    /\ ConsensusReturned
    /\ Len(opinions) = 2
    /\ opinions[1].recommendations = <<"biopsy", "biopsy">>
    /\ opinions[2].recommendations = <<"MRI", "biopsy", "chemotherapy">>
    /\ opinions[1].confidence # opinions[2].confidence
    /\ consensus_result.consensus_score < Scale

\* the dissent entries of one kind, in the order of the list
EntriesOfKind(kind) ==
    SelectSeq(consensus_result.dissenting_opinions, LAMBDA e : e.kind = kind)

LowConfidenceOpinions == SelectSeq(opinions, LAMBDA o : o.confidence < Frac(5, 10))

\* C22: when the score is at most 0.8, the low-confidence entries are, in
\* order, one for each opinion whose confidence is below 0.5, and each names
\* the role of its opinion; a confidence of exactly 0.5 gives no entry.
C22_LowConfidenceEntries ==
    (ConsensusReturned /\ consensus_result.consensus_score <= Frac(8, 10)) =>
        /\ Len(EntriesOfKind("low_confidence")) = Len(LowConfidenceOpinions)
        /\ \A k \in 1..Len(LowConfidenceOpinions) :
            /\ EntriesOfKind("low_confidence")[k].role = LowConfidenceOpinions[k].role
            /\ EntriesOfKind("low_confidence")[k].confidence =
                    Format2(LowConfidenceOpinions[k].confidence)

\* one opinion at exactly 0.5 and one below it: only the second is flagged
C22_Witness ==
    /\ ConsensusReturned
    /\ consensus_result.consensus_score <= Frac(8, 10)
    /\ Len(opinions) = 2
    /\ opinions[1].confidence = Frac(5, 10)
    /\ opinions[2].confidence = Frac(3, 10)
    /\ opinions[1].role # opinions[2].role
    /\ Len(EntriesOfKind("low_confidence")) = 1
    /\ EntriesOfKind("low_confidence")[1].role = opinions[2].role

\* the concerns of opinions[i] that no other position of the sequence holds
UniqueAmongPositions(i) ==
    Range(opinions[i].concerns) \
        UNION {Range(opinions[j].concerns) : j \in (1..Len(opinions)) \ {i}}

\* C23: when the score is at most 0.8, an opinion gets a unique-concern
\* entry exactly if it holds a concern that no other position of the
\* sequence holds, also when two opinions carry the same agent_id; the
\* entry names the role and lists exactly those concerns, whether or not the
\* opinion also has a low-confidence entry.
C23_UniqueAmongPositions ==
    (ConsensusReturned /\ consensus_result.consensus_score <= Frac(8, 10)) =>
        [k \in 1..Len(EntriesOfKind("unique_concerns")) |->
            [role |-> EntriesOfKind("unique_concerns")[k].role,
             concerns |-> Range(EntriesOfKind("unique_concerns")[k].concerns)]]
        = Flatten([i \in 1..Len(opinions) |->
                    IF UniqueAmongPositions(i) # {}
                    THEN <<[role |-> opinions[i].role,
                            concerns |-> UniqueAmongPositions(i)]>>
                    ELSE <<>>])

\* the distinct recommendations of the opinions, in order of first occurrence
DistinctRecommendations ==
    Dedup(Flatten([i \in 1..Len(opinions) |-> opinions[i].recommendations]))

\* role_weight * confidence summed over the occurrences of rec
AccumulatedWeight(rec) ==
    Sum([i \in 1..Len(opinions) |->
            Count(opinions[i].recommendations, rec)
                * Mul(RoleWeightTable[opinions[i].role], opinions[i].confidence)])

TotalWeight ==
    Sum([k \in 1..Len(DistinctRecommendations) |->
            AccumulatedWeight(DistinctRecommendations[k])])

\* the recommendations that weigh strictly more than the mean weight
StrictlyAboveMean ==
    {r \in Range(DistinctRecommendations) :
        Len(DistinctRecommendations) * AccumulatedWeight(r) > TotalWeight}

AtMostMean == Range(DistinctRecommendations) \ StrictlyAboveMean

\* section holds the n heaviest members of class, or all of them, without
\* repeats and in descending weight
RendersHeaviest(section, class, n) ==
    /\ Range(section) \subseteq class
    /\ Len(section) = Min(n, Cardinality(class))
    /\ Cardinality(Range(section)) = Len(section)
    /\ \A k \in 1..(Len(section) - 1) :
            AccumulatedWeight(section[k]) >= AccumulatedWeight(section[k + 1])
    /\ \A r \in Range(section), q \in class \ Range(section) :
            AccumulatedWeight(r) >= AccumulatedWeight(q)

\* C24: a recommendation is core exactly if its accumulated weight (the sum
\* of role_weight * confidence over its occurrences) is strictly greater
\* than the mean over the distinct recommendations, and supplementary
\* otherwise; the text lists at most 5 core items, at most 3 supplementary
\* items and at most 3 distinct concerns, each section in descending weight,
\* and no core item weighs less than a supplementary item.
C24_CoreAboveMean ==
    ConsensusReturned =>
        LET rec == consensus_result.final_recommendation
        IN  /\ RendersHeaviest(rec.core, StrictlyAboveMean, 5)
            /\ RendersHeaviest(rec.supplementary, AtMostMean, 3)
            /\ Len(rec.concerns) =
                Min(3, Cardinality(UNION {Range(opinions[i].concerns) :
                                            i \in 1..Len(opinions)}))
            /\ Cardinality(Range(rec.concerns)) = Len(rec.concerns)
            /\ \A r \in Range(rec.core), q \in Range(rec.supplementary) :
                    AccumulatedWeight(r) >= AccumulatedWeight(q)

\* the place of a step in the order the steps are listed in
StepRank(step) ==
    CASE step \in {"high_priority_48h", "moderate_priority_one_week"} -> 0
      [] step = "further_multidisciplinary_discussion" -> 1
      [] step = "second_opinion" -> 2
      [] step = "urgent_medical_evaluation" -> 3
      [] step = "psychological_intervention" -> 4
      [] step = "social_worker_financial_support" -> 5
      [] step = "proceed_with_plan" -> 6
      [] OTHER -> 7

\* C25: next_steps holds the priority step first, then the two low-consensus
\* steps exactly if the score is below 0.5, the urgent medical step exactly
\* if the medical risk is above 0.7, the psychological step exactly if the
\* psychological risk is above 0.5 and the financial step exactly if the
\* economic risk is above 0.5, in this order and none twice; the
\* quality-of-life risk adds no step.
C25_NextStepsOrder ==
    DecisionReturned =>
        LET steps == decision_report.next_steps
            cr == decision_report.consensus_result
            risks == cr.risk_assessment
            Listed(step) == step \in Range(steps)
        IN  /\ \A j, k \in 1..Len(steps) :
                    j < k => StepRank(steps[j]) < StepRank(steps[k])
            /\ \A k \in 1..Len(steps) : StepRank(steps[k]) <= 6
            /\ Listed("further_multidisciplinary_discussion")
                    <=> cr.consensus_score < Frac(5, 10)
            /\ Listed("second_opinion") <=> cr.consensus_score < Frac(5, 10)
            /\ Listed("urgent_medical_evaluation")
                    <=> risks["medical_risk"] > Frac(7, 10)
            /\ Listed("psychological_intervention")
                    <=> risks["psychological_risk"] > Frac(5, 10)
            /\ Listed("social_worker_financial_support")
                    <=> risks["economic_risk"] > Frac(5, 10)
            /\ Listed("proceed_with_plan") => Len(steps) = 1

\* a priority step, the low-consensus steps and a risk step in one list,
\* while the quality-of-life risk is high
C25_Witness ==
    /\ DecisionReturned
    /\ decision_report.next_steps =
            <<"moderate_priority_one_week", "further_multidisciplinary_discussion",
              "second_opinion", "social_worker_financial_support">>
    /\ decision_report.consensus_result.risk_assessment["quality_of_life_risk"]
            > Frac(5, 10)

\* the psychological step followed by the financial step
C25_RiskStepsWitness ==
    /\ DecisionReturned
    /\ decision_report.consensus_result.consensus_score >= Frac(5, 10)
    /\ \E k \in 1..(Len(decision_report.next_steps) - 1) :
        /\ decision_report.next_steps[k] = "psychological_intervention"
        /\ decision_report.next_steps[k + 1] = "social_worker_financial_support"

\* the keyword list of a risk category
KeywordsOf(key) ==
    CASE key = "medical_risk" -> risk_keywords
      [] key = "psychological_risk" -> psych_risk_keywords
      [] key = "economic_risk" -> economic_keywords
      [] key = "quality_of_life_risk" -> quality_keywords

\* the share of the concerns that hold a keyword of the category
KeywordShare(concerns, key) ==
    IF concerns = <<>> THEN 0
    ELSE Div(Cardinality({n \in 1..Len(concerns) :
                             \E keyword \in KeywordsOf(key) :
                                 Contains(concerns[n], keyword)}),
             Len(concerns))

\* C26: a risk value is computed from the opinion of the category's role
\* alone (medical: oncologist, psychological: psychologist, economic and
\* quality of life: patient advocate) as the number of its concerns that
\* contain a keyword of the category over the number of its concerns, a
\* concern with several keywords counted once, and 0 without concerns.
C26_RiskFromOwnRole ==
    ConsensusReturned =>
        \A key \in RiskKeys, i \in 1..Len(opinions) :
            (/\ opinions[i].role = AuthoritativeRole(key)
             /\ \A j \in (1..Len(opinions)) \ {i} : opinions[j].role # opinions[i].role)
                => consensus_result.risk_assessment[key]
                        = KeywordShare(opinions[i].concerns, key)

\* the first of the advocate's two concerns holds two economic keywords and
\* a quality-of-life keyword; the oncologist's concern adds nothing to either
C26_Witness ==
    /\ ConsensusReturned
    /\ Len(opinions) = 2
    /\ opinions[1].role = ONCOLOGIST
    /\ opinions[1].concerns = <<MetastasisRisk>>
    /\ opinions[2].role = PATIENT_ADVOCATE
    /\ opinions[2].concerns = <<EconomicBurdenSelfCare, DecisionPressure>>
    /\ Cardinality({k \in economic_keywords : Contains(EconomicBurdenSelfCare, k)}) = 2
    /\ consensus_result.risk_assessment["economic_risk"] = Frac(1, 2)
    /\ consensus_result.risk_assessment["quality_of_life_risk"] = Frac(1, 2)
    /\ consensus_result.risk_assessment["medical_risk"] = Scale

\* C29: when several opinions have the authoritative role of a category,
\* the value of the category is the keyword share of the last of them alone;
\* a last one without concerns sets the value to 0.
C29_LastOpinionOfRole ==
    ConsensusReturned =>
        \A key \in RiskKeys, i \in 1..Len(opinions) :
            (/\ opinions[i].role = AuthoritativeRole(key)
             /\ \E j \in 1..(i - 1) : opinions[j].role = opinions[i].role
             /\ \A j \in (i + 1)..Len(opinions) : opinions[j].role # opinions[i].role)
                => /\ consensus_result.risk_assessment[key]
                        = KeywordShare(opinions[i].concerns, key)
                   /\ opinions[i].concerns = <<>>
                        => consensus_result.risk_assessment[key] = 0

\* an oncologist with a keyword concern, then an oncologist without concerns
C29_Witness ==
    /\ ConsensusReturned
    /\ Len(opinions) = 2
    /\ opinions[1].role = ONCOLOGIST
    /\ opinions[1].concerns = <<MetastasisRisk>>
    /\ opinions[2].role = ONCOLOGIST
    /\ opinions[2].concerns = <<>>
    /\ consensus_result.risk_assessment["medical_risk"] = 0

\* C27: the summary has one line per risk category, labelled low for a value
\* below 0.3, medium from 0.3 up to but not including 0.7, and high from 0.7;
\* the dissent section is printed exactly if there are dissenting opinions,
\* with one line per entry in the order of the entries.
C27_SummaryLabels ==
    DecisionReturned =>
        LET summary == decision_report.decision_summary
            cr == decision_report.consensus_result
        IN  /\ Len(summary.risks) = Cardinality(DOMAIN cr.risk_assessment)
            /\ {summary.risks[k].risk_type : k \in 1..Len(summary.risks)}
                    = DOMAIN cr.risk_assessment
            /\ \A k \in 1..Len(summary.risks) :
                LET value == cr.risk_assessment[summary.risks[k].risk_type]
                IN  /\ value < Frac(3, 10) => summary.risks[k].risk_desc = "low"
                    /\ (Frac(3, 10) <= value /\ value < Frac(7, 10))
                            => summary.risks[k].risk_desc = "medium"
                    /\ value >= Frac(7, 10) => summary.risks[k].risk_desc = "high"
            /\ summary.dissent_heading <=> cr.dissenting_opinions # <<>>
            /\ summary.dissent = cr.dissenting_opinions

\* a medium medical risk, a high psychological risk, low economic and
\* quality-of-life risks, and two dissent lines
C27_Witness ==
    /\ DecisionReturned
    /\ decision_report.decision_summary.risks[1].risk_desc = "medium"
    /\ decision_report.decision_summary.risks[2].risk_desc = "high"
    /\ decision_report.decision_summary.risks[3].risk_desc = "low"
    /\ decision_report.decision_summary.dissent_heading
    /\ Len(decision_report.decision_summary.dissent) = 2

\* a summary without the dissent section
C27_NoDissentWitness ==
    /\ DecisionReturned
    /\ ~decision_report.decision_summary.dissent_heading
    /\ decision_report.decision_summary.risks[1].risk_desc = "high"

\* what the oncologists, psychologists and patient advocates of a list
\* raise, in the order of the list
AuthoritativeConcerns(ops) ==
    LET kept == SelectSeq(ops, LAMBDA o : o.role \in {ONCOLOGIST, PSYCHOLOGIST,
                                                      PATIENT_ADVOCATE})
    IN  [k \in 1..Len(kept) |-> [role |-> kept[k].role, concerns |-> kept[k].concerns]]

\* C28: the risk assessment depends on nothing but the concerns of the
\* oncologists, psychologists and patient advocates: a list that differs in
\* radiologist or nurse opinions (added, removed or changed), or in the
\* confidence, priority or recommendations of any opinion, has the same
\* risk assessment.
C28_RiskNonInterference ==
    DecisionReturned =>
        \A other \in {ops \in SummaryInputs :
                        AuthoritativeConcerns(ops) = AuthoritativeConcerns(opinions)} :
            assess_risks(other) = decision_report.consensus_result.risk_assessment

\* a radiologist with a keyword concern next to an oncologist with half a
\* share: the value is that of the list without the radiologist
C28_Witness ==
    /\ DecisionReturned
    /\ Len(opinions) = 2
    /\ opinions[1].role = ONCOLOGIST
    /\ opinions[1].concerns = <<MetastasisRisk, DecisionPressure>>
    /\ opinions[2].role = RADIOLOGIST
    /\ opinions[2].concerns = <<MetastasisRisk>>
    /\ \E other \in SummaryInputs :
        /\ Len(other) = 1
        /\ other[1].confidence # opinions[1].confidence
        /\ AuthoritativeConcerns(other) = AuthoritativeConcerns(opinions)
    /\ decision_report.consensus_result.risk_assessment["medical_risk"] = Frac(1, 2)

\* C30: when all distinct recommendations have the same accumulated weight,
\* as for a single opinion with pairwise distinct recommendations, none is
\* core: up to three are listed as supplementary, in order of first
\* occurrence.
C30_EqualWeightsNoCore ==
    (/\ ConsensusReturned
     /\ \A r, q \in Range(DistinctRecommendations) :
            AccumulatedWeight(r) = AccumulatedWeight(q))
        => /\ consensus_result.final_recommendation.core = <<>>
           /\ consensus_result.final_recommendation.supplementary
                = Take(DistinctRecommendations, 3)

====
